---- MODULE Spec2Model ----
(***************************************************************************)
(* MS Batch Generator (LCMS_Automation): the sequence builder              *)
(* utils.generate_sequence and the name resolver                           *)
(* utils.generate_sample_name, as state machines over the session state    *)
(* they read.                                                              *)
(*                                                                         *)
(* A Python dict is a TLA+ function whose DOMAIN is the set of keys that   *)
(* are present, so a missing key is a key outside the DOMAIN and           *)
(* dict.get(key, default) is Get below.                                    *)
(***************************************************************************)
EXTENDS Integers, Sequences, FiniteSets, TLC

VARIABLES
    sample_types,       \* st.session_state.sample_types : key -> config dict
    sample_type_order,  \* st.session_state.sample_type_order : list of keys
    naming_mode,        \* st.session_state.naming_mode
    session_state,      \* the other keys of st.session_state that are present:
                        \* prefix_*, suffix_*, index_start_*, imported_names
    sequence,           \* the list generate_sequence returned
    raised,             \* TRUE when the call ended in an exception
    names,              \* the 'Sample Name' column built from sequence
    pc,                 \* "config" -> "generated" -> "named"
    default_sample_types, \* the dict object config.DEFAULT_SAMPLE_TYPES, as it is now
    shared,             \* the keys whose config dict in the session is the
                        \* very object DEFAULT_SAMPLE_TYPES holds
    templates_file,     \* the file saved_templates.json
    templates,          \* what the last load_templates() returned
    previous,           \* the results of the script run before this one
    invocations,        \* the save_template / delete_template calls of
                        \* concurrent sessions: id -> [op, name, config, at, templates]
    table               \* the rows of the instrument table of step 4

vars == <<sample_types, sample_type_order, naming_mode, session_state,
          sequence, raised, names, pc, default_sample_types, shared,
          templates_file, templates, previous, invocations, table>>

\* the module object and the aliases of its inner dicts
config_vars == <<default_sample_types, shared>>

\* the template store
store_vars == <<templates_file, templates>>

\* the calls of other sessions and the instrument table
other_vars == <<invocations, table>>

----------------------------------------------------------------------------
(* Bounds of the model *)

\* largest count of an auxiliary category (Standard, QC, Blank)
MaxCount == 2
\* largest count of the Sample category
MaxSamples == 3
\* largest interval of an interval rule
MaxInterval == 2
\* longest imported name list
MaxNames == 4
\* most script reruns after the first run
MaxReruns == 2
\* largest number a stored template holds
MaxJsonInt == 10
\* most widget events of step 2 in one session
MaxEdits == 3
\* the samples of a sequence that is put on a plate
MaxRows == 97

----------------------------------------------------------------------------
(* config.py *)

StartOnly == "At the start only"
EndOnly == "At the end only"
FixedInterval == "At fixed interval"
StartPlusInterval == "At start + fixed interval"

FREQUENCY_RULES == <<StartOnly, EndOnly, FixedInterval, StartPlusInterval>>

ModeNone == "None"
ModeAuto == "Auto-build (Prefix + Index + Suffix)"
ModeManual == "Enter each name manually"
ModeImport == "Import from CSV/Excel"

NAMING_MODES == <<ModeNone, ModeAuto, ModeManual, ModeImport>>

DEFAULT_SAMPLE_TYPES ==
    [standards |-> [enabled |-> FALSE, count |-> 0, rule |-> StartOnly, interval |-> 1],
     samples   |-> [enabled |-> TRUE,  count |-> 0, rule |-> StartOnly, interval |-> 1],
     qc        |-> [enabled |-> FALSE, count |-> 0, rule |-> FixedInterval, interval |-> 10],
     blanks    |-> [enabled |-> FALSE, count |-> 0, rule |-> FixedInterval, interval |-> 5]]

DefaultOrder == <<"standards", "samples", "qc", "blanks">>

----------------------------------------------------------------------------
(* Python primitives *)

\* dict.get(key, default)
Get(d, key, default) == IF key \in DOMAIN d THEN d[key] ELSE default

\* the empty dict {}
EmptyDict == [k \in {} |-> 0]

\* a % b for b # 0: the result takes the sign of the divisor
PyMod(a, b) == IF b > 0 THEN a % b ELSE 0 - ((0 - a) % (0 - b))

\* str.title() on the keys a type_order list holds in this model
Title(s) ==
    CASE s = "standards" -> "Standards"
      [] s = "samples" -> "Samples"
      [] s = "qc" -> "Qc"
      [] s = "blanks" -> "Blanks"
      [] OTHER -> "Extra"

\* str.lower() on the display names
Lower(s) ==
    CASE s = "Standard" -> "standard"
      [] s = "Sample" -> "sample"
      [] s = "QC" -> "qc"
      [] s = "Blank" -> "blank"
      [] s = "Extra" -> "extra"
      [] OTHER -> s

\* s[:3].upper() on the lower-cased display names
Upper3(s) ==
    CASE s = "standard" -> "STA"
      [] s = "sample" -> "SAM"
      [] s = "qc" -> "QC"
      [] s = "blank" -> "BLA"
      [] s = "extra" -> "EXT"
      [] OTHER -> s

----------------------------------------------------------------------------
(* utils.generate_sequence *)

type_display == [standards |-> "Standard", samples |-> "Sample",
                 qc |-> "QC", blanks |-> "Blank"]

\* type_display.get(type_key, type_key.title())
display_name(type_key) == Get(type_display, type_key, Title(type_key))

\* type_configs: the four known keys, each sample_types.get(key, {})
type_configs(st) ==
    [k \in {"standards", "samples", "qc", "blanks"} |-> Get(st, k, EmptyDict)]

\* config.get('enabled'), as a truth value
enabled(config) == Get(config, "enabled", FALSE)

includes_interval(rule) == rule \in {FixedInterval, StartPlusInterval}

\* add_block with range(count) in place of range(1, count + 1)
add_block_zero_based(stype, count, seq) ==
    seq \o [i \in 1..count |-> [type |-> stype, index |-> i - 1]]

\* add_block(stype, count, sequence): indices restart at 1 in every block
add_block(stype, count, seq) ==
    seq \o [i \in 1..count |-> [type |-> stype, index |-> i]]

\* the interval_types dict: type_key -> (interval, count), for the keys of
\* type_order that are enabled with an interval rule
interval_types(tc, order) ==
    [k \in {order[p] : p \in 1..Len(order)} \cap
           {key \in DOMAIN tc : /\ enabled(tc[key])
                                /\ includes_interval(Get(tc[key], "rule", ""))}
        |-> [interval |-> Get(tc[k], "interval", 0), count |-> Get(tc[k], "count", 0)]]

\* the start block of one category
start_block(tc, type_key, seq) ==
    LET config == Get(tc, type_key, EmptyDict)
        rule == Get(config, "rule", "")
    IN  IF ~enabled(config) THEN seq
        ELSE IF rule = StartOnly
            THEN add_block(display_name(type_key), Get(config, "count", 0), seq)
        ELSE IF rule = StartPlusInterval
            THEN add_block(display_name(type_key),
                           Get(config, "start_count", Get(config, "count", 0)), seq)
        ELSE IF rule = FixedInterval
            THEN add_block(display_name(type_key), Get(config, "count", 0), seq)
        ELSE seq

\* START ITEMS walking type_order from its last key to its first
RECURSIVE start_items_reversed(_, _, _, _)
start_items_reversed(tc, order, k, seq) ==
    IF k > Len(order) THEN seq
    ELSE start_block(tc, order[k], start_items_reversed(tc, order, k + 1, seq))

\* === START ITEMS (in order) ===: type_order[k..]
RECURSIVE start_items(_, _, _, _)
start_items(tc, order, k, seq) ==
    IF k > Len(order) THEN seq
    ELSE start_items(tc, order, k + 1, start_block(tc, order[k], seq))

\* the test made before sample_counter was incremented
mod_is_zero_early(sample_counter, interval) ==
    IF interval = 0 THEN "raise"
    ELSE IF PyMod(sample_counter - 1, interval) = 0 THEN "due"
    ELSE "skip"

\* sample_counter % interval == 0: "raise" is ZeroDivisionError
mod_is_zero(sample_counter, interval) ==
    IF interval = 0 THEN "raise"
    ELSE IF PyMod(sample_counter, interval) = 0 THEN "due"
    ELSE "skip"

\* interval_check without its interval > 0 guard
interval_check_unguarded(interval, sample_counter) ==
    mod_is_zero(sample_counter, interval)

\* interval_check testing interval != 0 in place of interval > 0
interval_check_nonzero(interval, sample_counter) ==
    IF interval # 0 THEN mod_is_zero(sample_counter, interval) ELSE "skip"

\* the test of one registered interval category after a main-sequence entry,
\* interval > 0 and sample_counter % interval == 0: "due" adds a block
interval_check(interval, sample_counter) ==
    IF interval > 0 THEN mod_is_zero(sample_counter, interval) ELSE "skip"

\* the inner loop walking the shipped order of the keys in place of type_order
RECURSIVE interval_blocks_shipped_order(_, _, _, _, _)
interval_blocks_shipped_order(its, order, k, sample_counter, acc) ==
    IF k > Len(DefaultOrder) \/ acc.raised THEN acc
    ELSE IF DefaultOrder[k] \notin DOMAIN its
        THEN interval_blocks_shipped_order(its, order, k + 1, sample_counter, acc)
    ELSE LET chk == interval_check(its[DefaultOrder[k]].interval, sample_counter)
         IN  IF chk = "raise" THEN [acc EXCEPT !.raised = TRUE]
             ELSE IF chk = "due"
                 THEN interval_blocks_shipped_order(its, order, k + 1, sample_counter,
                        [acc EXCEPT !.seq = add_block(display_name(DefaultOrder[k]),
                                                      its[DefaultOrder[k]].count, acc.seq)])
             ELSE interval_blocks_shipped_order(its, order, k + 1, sample_counter, acc)

\* the inner loop over type_order[k..] after one main-sequence entry;
\* acc = [seq, raised]
RECURSIVE interval_blocks(_, _, _, _, _)
interval_blocks(its, order, k, sample_counter, acc) ==
    IF k > Len(order) \/ acc.raised THEN acc
    ELSE IF order[k] \notin DOMAIN its
        THEN interval_blocks(its, order, k + 1, sample_counter, acc)
    ELSE LET chk == interval_check(its[order[k]].interval, sample_counter)
         IN  IF chk = "raise" THEN [acc EXCEPT !.raised = TRUE]
             ELSE IF chk = "due"
                 THEN interval_blocks(its, order, k + 1, sample_counter,
                        [acc EXCEPT !.seq = add_block(display_name(order[k]),
                                                      its[order[k]].count, acc.seq)])
             ELSE interval_blocks(its, order, k + 1, sample_counter, acc)

\* is_main_type with samples qualifying whether enabled or not
is_main_type_always_samples(tc, type_key) ==
    \/ type_key = "samples"
    \/ /\ enabled(Get(tc, type_key, EmptyDict))
       /\ Get(Get(tc, type_key, EmptyDict), "rule", "")
             \notin {StartOnly, EndOnly, FixedInterval, StartPlusInterval}

\* main_types: samples always, another enabled key when its rule is none of
\* the four placement rules
is_main_type(tc, type_key) ==
    /\ enabled(Get(tc, type_key, EmptyDict))
    /\ \/ type_key = "samples"
       \/ Get(Get(tc, type_key, EmptyDict), "rule", "")
             \notin {StartOnly, EndOnly, FixedInterval, StartPlusInterval}

main_types(tc, order) == SelectSeq(order, LAMBDA k : is_main_type(tc, k))

\* main_entries without the interval test after the last entry of the type
RECURSIVE main_entries_no_trailing(_, _, _, _, _, _)
main_entries_no_trailing(its, order, type_key, i, item_count, acc) ==
    IF i > item_count \/ acc.raised THEN acc
    ELSE LET appended == Append(acc.seq, [type |-> display_name(type_key), index |-> i])
             counter == acc.sample_counter + 1
             after == IF i = item_count THEN [seq |-> appended, raised |-> FALSE]
                      ELSE interval_blocks(its, order, 1, counter,
                                           [seq |-> appended, raised |-> FALSE])
         IN  main_entries_no_trailing(its, order, type_key, i + 1, item_count,
                          [seq |-> after.seq, sample_counter |-> counter,
                           raised |-> after.raised])

\* the entries i..item_count of one main type; acc = [seq, sample_counter, raised]
RECURSIVE main_entries(_, _, _, _, _, _)
main_entries(its, order, type_key, i, item_count, acc) ==
    IF i > item_count \/ acc.raised THEN acc
    ELSE LET appended == Append(acc.seq, [type |-> display_name(type_key), index |-> i])
             counter == acc.sample_counter + 1
             after == interval_blocks(its, order, 1, counter,
                                      [seq |-> appended, raised |-> FALSE])
         IN  main_entries(its, order, type_key, i + 1, item_count,
                          [seq |-> after.seq, sample_counter |-> counter,
                           raised |-> after.raised])

\* === MAIN SEQUENCE (in order) ===: main_types[k..]
RECURSIVE main_sequence(_, _, _, _, _, _)
main_sequence(tc, its, order, mains, k, acc) ==
    IF k > Len(mains) \/ acc.raised THEN acc
    ELSE main_sequence(tc, its, order, mains, k + 1,
            main_entries(its, order, mains[k], 1, Get(tc[mains[k]], "count", 0), acc))

\* end_block without the enabled test
end_block_any(tc, type_key, seq) ==
    LET config == Get(tc, type_key, EmptyDict)
    IN  IF Get(config, "rule", "") = EndOnly
        THEN add_block(display_name(type_key), Get(config, "count", 0), seq)
        ELSE seq

\* the end block of one category
end_block(tc, type_key, seq) ==
    LET config == Get(tc, type_key, EmptyDict)
    IN  IF enabled(config) /\ Get(config, "rule", "") = EndOnly
        THEN add_block(display_name(type_key), Get(config, "count", 0), seq)
        ELSE seq

\* === END ITEMS (in order) ===: type_order[k..]
RECURSIVE end_items(_, _, _, _)
end_items(tc, order, k, seq) ==
    IF k > Len(order) THEN seq
    ELSE end_items(tc, order, k + 1, end_block(tc, order[k], seq))

\* generate_sequence(sample_types, type_order): [sequence, raised]
generate_sequence(st, order) ==
    LET tc == type_configs(st)
        its == interval_types(tc, order)
        started == start_items(tc, order, 1, <<>>)
        main == main_sequence(tc, its, order, main_types(tc, order), 1,
                    [seq |-> started, sample_counter |-> 0, raised |-> FALSE])
    IN  IF main.raised THEN [sequence |-> <<>>, raised |-> TRUE]
        ELSE [sequence |-> end_items(tc, order, 1, main.seq), raised |-> FALSE]

----------------------------------------------------------------------------
(* utils.generate_sample_name *)

\* plain_name with a separator, f"{item['type']}_{idx}"
plain_name_separated(item) == item.type \o "_" \o ToString(item.index)

\* f"{item['type']}{idx}"
plain_name(item) == item.type \o ToString(item.index)

\* sequence.index(item): the 0-based position of the first entry equal to item
list_index(seq, item) ==
    (CHOOSE p \in 1..Len(seq) :
        seq[p] = item /\ \A q \in 1..(p - 1) : seq[q] # item) - 1

\* sum(1 for s in sequence[:n] if s['type'] == stype)
count_before(seq, n, stype) == Cardinality({q \in 1..n : seq[q].type = stype})

\* generate_sample_name numbering from index_start + idx
generate_sample_name_off_by_one(ss, item, mode, seq) ==
    LET type_name == Lower(item.type)
        prefix == Get(ss, "prefix_" \o type_name, Upper3(type_name))
        suffix == Get(ss, "suffix_" \o type_name, "")
        index_start == Get(ss, "index_start_" \o type_name, 1)
    IN  IF mode = ModeAuto
        THEN IF suffix # ""
             THEN prefix \o "_" \o ToString(index_start + item.index) \o "_" \o suffix
             ELSE prefix \o "_" \o ToString(index_start + item.index)
        ELSE plain_name(item)

\* generate_sample_name reading the prefix under the plural key when it is there
generate_sample_name_plural_prefix(ss, item, mode, seq) ==
    LET type_name == Lower(item.type)
        prefix == Get(ss, "prefix_" \o type_name \o "s",
                      Get(ss, "prefix_" \o type_name, Upper3(type_name)))
        suffix == Get(ss, "suffix_" \o type_name, "")
        index_start == Get(ss, "index_start_" \o type_name, 1)
    IN  IF mode = ModeAuto
        THEN IF suffix # ""
             THEN prefix \o "_" \o ToString(index_start + item.index - 1) \o "_" \o suffix
             ELSE prefix \o "_" \o ToString(index_start + item.index - 1)
        ELSE IF mode = ModeImport /\ "imported_names" \in DOMAIN ss
                /\ seq # <<>>
                /\ count_before(seq, list_index(seq, item), item.type) < Len(ss["imported_names"])
        THEN ss["imported_names"][count_before(seq, list_index(seq, item), item.type) + 1]
        ELSE plain_name(item)

\* generate_sample_name(item, naming_mode, sequence), reading session state ss
generate_sample_name(ss, item, mode, seq) ==
    LET type_name == Lower(item.type)
        idx == item.index
    IN  IF mode = ModeNone THEN plain_name(item)
        ELSE IF mode = ModeAuto THEN
            LET prefix == Get(ss, "prefix_" \o type_name, Upper3(type_name))
                suffix == Get(ss, "suffix_" \o type_name, "")
                index_start == Get(ss, "index_start_" \o type_name, 1)
            IN  IF suffix # ""
                THEN prefix \o "_" \o ToString(index_start + idx - 1) \o "_" \o suffix
                ELSE prefix \o "_" \o ToString(index_start + idx - 1)
        ELSE IF mode = ModeImport /\ "imported_names" \in DOMAIN ss THEN
            LET imported == ss["imported_names"]
                total_idx == count_before(seq, list_index(seq, item), item.type)
            IN  IF seq # <<>> /\ total_idx < Len(imported)
                THEN imported[total_idx + 1]
                ELSE plain_name(item)
        ELSE plain_name(item)

----------------------------------------------------------------------------
(* The inputs: the configurations and orders a session can hold *)

AuxKeys == {"standards", "qc", "blanks"}

Permutations4 ==
    {o \in [1..4 -> {"standards", "samples", "qc", "blanks"}] :
        \A i, j \in 1..4 : i # j => o[i] # o[j]}

\* a config as the defaults and the step-2 widgets write it
Cfg(e, c, r, i) == [enabled |-> e, count |-> c, rule |-> r, interval |-> i]

\* an enabled config that stores no rule, as a saved template may hold it
NoRuleCfg(c) == [enabled |-> TRUE, count |-> c]

\* a config after the "How many at start?" widget wrote start_count
StartCfg(c, i, sc) ==
    [enabled |-> TRUE, count |-> c, rule |-> StartPlusInterval, interval |-> i,
     start_count |-> sc]

\* the Sample configs: disabled, with the default rule, with no rule
SampleConfigs ==
    {Cfg(FALSE, MaxSamples, StartOnly, 1)}
    \cup {Cfg(TRUE, c, StartOnly, 1) : c \in 0..MaxSamples}
    \cup {NoRuleCfg(c) : c \in 0..MaxSamples}

\* the configs of the auxiliary category that is varied
RichAux ==
    {Cfg(FALSE, MaxCount, r, 1) : r \in {StartOnly, EndOnly, FixedInterval, StartPlusInterval}}
    \cup {Cfg(TRUE, c, StartOnly, 1) : c \in 0..MaxCount}
    \cup {Cfg(TRUE, c, EndOnly, 1) : c \in 0..MaxCount}
    \cup {NoRuleCfg(c) : c \in 1..MaxCount}
    \cup {Cfg(TRUE, c, FixedInterval, i) : c \in 0..MaxCount, i \in 0..MaxInterval}
    \cup {Cfg(TRUE, MaxCount, StartPlusInterval, i) : i \in 0..MaxInterval}
    \cup {StartCfg(c, 1, sc) : c \in 0..MaxCount, sc \in {1, MaxCount + 1}}

\* the configs of the other two auxiliary categories
PlainAux(key) ==
    {DEFAULT_SAMPLE_TYPES[key], Cfg(TRUE, 1, FixedInterval, MaxInterval),
     Cfg(TRUE, 1, EndOnly, 1)}

\* every category present, every field but start_count present, counts and
\* intervals not negative
Configs ==
    UNION {[standards : IF rich = "standards" THEN RichAux ELSE PlainAux("standards"),
            samples : SampleConfigs,
            qc : IF rich = "qc" THEN RichAux ELSE PlainAux("qc"),
            blanks : IF rich = "blanks" THEN RichAux ELSE PlainAux("blanks")]
           : rich \in AuxKeys}

\* the interval law's configuration: Sample 20, QC 2 every 5, the others as
\* shipped; the rule stored for Sample is the default one or none
IntervalLawConfigs ==
    {[DEFAULT_SAMPLE_TYPES EXCEPT !.samples = s, !.qc = Cfg(TRUE, 2, FixedInterval, 5)]
        : s \in {Cfg(TRUE, 20, StartOnly, 1), NoRuleCfg(20)}}

\* the end-to-end scenario's configuration
EndToEndConfig ==
    [DEFAULT_SAMPLE_TYPES EXCEPT !.samples = Cfg(TRUE, 10, StartOnly, 1),
                                 !.qc = Cfg(TRUE, 1, FixedInterval, 5)]

\* configs with a field missing, a negative count or interval, interval 0
OddConfigs ==
    {EmptyDict, [count |-> MaxCount, rule |-> StartOnly, interval |-> 1],
     [enabled |-> TRUE, rule |-> FixedInterval, interval |-> 1],
     [enabled |-> TRUE, count |-> 1, rule |-> FixedInterval],
     [enabled |-> TRUE, count |-> 1, rule |-> StartPlusInterval, start_count |-> 0 - 1],
     Cfg(TRUE, 0 - 1, StartOnly, 1), Cfg(TRUE, 0 - MaxCount, EndOnly, 1),
     Cfg(TRUE, 1, FixedInterval, 0), Cfg(TRUE, 1, FixedInterval, 0 - 1),
     Cfg(TRUE, 1, StartPlusInterval, 0 - MaxInterval)}

\* mappings that lack categories or hold odd configs
OddSampleTypes ==
    {EmptyDict}
    \cup {("samples" :> s) : s \in {NoRuleCfg(MaxSamples), [enabled |-> TRUE]}}
    \cup {("samples" :> s) @@ ("qc" :> q)
            : s \in {NoRuleCfg(MaxSamples), Cfg(TRUE, 0 - 1, StartOnly, 1),
                     [enabled |-> TRUE, count |-> MaxSamples, rule |-> FixedInterval]},
              q \in OddConfigs}
    \cup {[DEFAULT_SAMPLE_TYPES EXCEPT !.samples = NoRuleCfg(MaxSamples), ![k] = q]
            : k \in AuxKeys, q \in OddConfigs}

\* type_order lists that are no permutation of the four keys
OddOrders ==
    {<<>>, <<"samples">>, <<"qc", "samples">>, <<"samples", "qc", "qc">>,
     <<"extra", "qc", "samples", "extra">>}

\* no file saved_templates.json
NoFile == [exists |-> FALSE, kind |-> "none", doc |-> EmptyDict]

\* no script run before this one
NoRun == [runs |-> 0, sequence |-> <<>>, names |-> <<>>, session_state |-> EmptyDict]

\* the state outside the session the sequence builder and the name resolver
\* are called in: the shipped defaults, no template file, the first run
Untouched ==
    /\ default_sample_types = DEFAULT_SAMPLE_TYPES
    /\ shared = {}
    /\ templates_file = NoFile
    /\ templates = EmptyDict
    /\ previous = NoRun
    /\ invocations = EmptyDict
    /\ table = <<>>

Init ==
    /\ \/ /\ sample_types \in IntervalLawConfigs \cup {EndToEndConfig}
          /\ sample_type_order = DefaultOrder
       \/ /\ sample_types \in OddSampleTypes
          /\ sample_type_order \in OddOrders \cup {DefaultOrder}
       \/ sample_types \in Configs /\ sample_type_order \in Permutations4
    /\ naming_mode = ModeNone
    /\ session_state = EmptyDict
    /\ sequence = <<>>
    /\ raised = FALSE
    /\ names = <<>>
    /\ pc = "config"
    /\ Untouched

\* sequence = generate_sequence(st.session_state.sample_types,
\*                              st.session_state.get('sample_type_order'))
Generate ==
    /\ pc = "config"
    /\ LET r == generate_sequence(sample_types, sample_type_order)
       IN  /\ sequence' = r.sequence
           /\ raised' = r.raised
    /\ pc' = "generated"
    /\ UNCHANGED <<sample_types, sample_type_order, naming_mode, session_state, names>>
    /\ UNCHANGED <<config_vars, store_vars, previous, other_vars>>

Next == Generate

Spec == Init /\ [][Next]_vars

----------------------------------------------------------------------------
(* The name resolver's inputs and the table loop that calls it *)

\* the configurations the naming step is run on
NamingConfigs ==
    [standards : {DEFAULT_SAMPLE_TYPES.standards, Cfg(TRUE, 3, StartOnly, 1)},
     samples : {NoRuleCfg(c) : c \in 0..MaxSamples} \cup {Cfg(TRUE, 1, StartOnly, 1)},
     qc : {DEFAULT_SAMPLE_TYPES.qc}
          \cup {Cfg(TRUE, c, FixedInterval, i) : c \in 1..MaxCount, i \in 1..MaxInterval},
     blanks : {DEFAULT_SAMPLE_TYPES.blanks, Cfg(TRUE, 1, EndOnly, 1)}]

NamingOrders == {DefaultOrder, <<"qc", "samples", "blanks", "standards">>}

\* df[name_column].tolist(): a column of n names
ImportedList(n) == [i \in 1..n |-> "N" \o ToString(i)]

\* the session keys generate_sample_name reads for one display name
AutoKeys(type_name, prefix, index_start, suffix) ==
    (("prefix_" \o type_name) :> prefix)
    @@ (("index_start_" \o type_name) :> index_start)
    @@ (("suffix_" \o type_name) :> suffix)

\* the dynamic part of st.session_state
NamingSessions ==
    {EmptyDict}
    \cup {("imported_names" :> ImportedList(n)) : n \in 0..MaxNames}
    \cup {AutoKeys("standard", "STD", i, s) : i \in {1, 5}, s \in {"", "dil"}}
    \cup {AutoKeys("qc", "QC", i, s) @@ AutoKeys("sample", "SPL", 1, s)
            : i \in {1, 5}, s \in {"", "uM"}}
    \cup {AutoKeys("standard", "STD", 1, "dil")
          @@ ("imported_names" :> ImportedList(MaxNames))}

InitNames ==
    /\ sample_types \in NamingConfigs
    /\ sample_type_order \in NamingOrders
    /\ naming_mode \in {NAMING_MODES[m] : m \in 1..Len(NAMING_MODES)}
    /\ session_state \in NamingSessions
    /\ sequence = <<>>
    /\ raised = FALSE
    /\ names = <<>>
    /\ pc = "config"
    /\ Untouched

\* the loop of render_sciex7500_config (and of the other two instruments):
\* one generate_sample_name call per entry, after `if not sequence: return`
NameEntries ==
    /\ pc = "generated"
    /\ ~raised
    /\ sequence # <<>>
    /\ names' = [p \in 1..Len(sequence) |->
                    generate_sample_name(session_state, sequence[p], naming_mode, sequence)]
    /\ pc' = "named"
    /\ UNCHANGED <<sample_types, sample_type_order, naming_mode, session_state,
                   sequence, raised>>
    /\ UNCHANGED <<config_vars, store_vars, previous, other_vars>>

NextNames == Generate \/ NameEntries

SpecNames == InitNames /\ [][NextNames]_vars

----------------------------------------------------------------------------
(* Script reruns: Streamlit runs the script again after every widget event,
   and every run calls generate_sequence and generate_sample_name anew *)

RerunConfigs ==
    [standards : {Cfg(TRUE, 1, StartOnly, 1)},
     samples : {NoRuleCfg(c) : c \in 1..MaxCount},
     qc : {DEFAULT_SAMPLE_TYPES.qc, Cfg(TRUE, 1, FixedInterval, 1)},
     blanks : {DEFAULT_SAMPLE_TYPES.blanks}]

InitRerun ==
    /\ sample_types \in RerunConfigs
    /\ sample_type_order = DefaultOrder
    /\ naming_mode \in {NAMING_MODES[m] : m \in 1..Len(NAMING_MODES)}
    /\ session_state \in {EmptyDict, ("imported_names" :> ImportedList(MaxCount))}
    /\ sequence = <<>>
    /\ raised = FALSE
    /\ names = <<>>
    /\ pc = "config"
    /\ Untouched

\* what the finished run leaves behind when a widget event starts the next
Rerun ==
    /\ pc = "named"
    /\ previous.runs < MaxReruns
    /\ previous' = [runs |-> previous.runs + 1, sequence |-> sequence,
                    names |-> names, session_state |-> session_state]
    /\ pc' = "config"
    /\ UNCHANGED <<sample_types, sample_type_order, naming_mode, sequence, raised, names>>
    /\ UNCHANGED <<config_vars, store_vars, other_vars>>

\* the Prefix widget's initial value: type_name[:3].upper(), 'SPL' for samples
prefix_value(type_name) ==
    CASE type_name = "standards" -> "STA"
      [] type_name = "samples" -> "SPL"
      [] type_name = "qc" -> "QC"
      [] type_name = "blanks" -> "BLA"
      [] OTHER -> type_name

\* render_step3_naming_rules, auto-build mode: the Prefix, Start Index and
\* Suffix widgets of one enabled category with a count, keyed by the
\* category's key in sample_types
EditNaming ==
    /\ naming_mode = ModeAuto
    /\ \E type_name \in DOMAIN sample_types :
        /\ sample_types[type_name].enabled /\ sample_types[type_name].count > 0
        /\ \E prefix \in {prefix_value(type_name), "X"}, index_start \in {1, 2}, suffix \in {"", "dil"} :
             session_state' = AutoKeys(type_name, prefix, index_start, suffix) @@ session_state
    /\ Rerun

\* render_step3_naming_rules, import mode: a file is uploaded and a column chosen
ImportNames ==
    /\ naming_mode = ModeImport
    /\ \E n \in 0..MaxNames :
         session_state' = ("imported_names" :> ImportedList(n)) @@ session_state
    /\ Rerun

NextRerun == Generate \/ NameEntries \/ EditNaming \/ ImportNames

SpecRerun == InitRerun /\ [][NextRerun]_vars

----------------------------------------------------------------------------
(* utils.load_templates, save_template, delete_template and the file they
   share.  A file is [exists, kind, doc]: kind "json" holds a JSON object doc,
   kind "garbage" is text that is no JSON document, kind "undecodable" is
   bytes that are no text in the encoding open() uses. *)

\* json.dump of one value of a category config: the token JSON writes
json_token(field, value) ==
    IF field = "enabled" THEN [t |-> "literal", text |-> IF value THEN "true" ELSE "false"]
    ELSE IF field \in {"rule", "naming_mode"} THEN [t |-> "string", text |-> value]
    ELSE [t |-> "number", text |-> ToString(value)]

\* json.load of one token
json_value(token) ==
    IF token.t = "literal" THEN token.text = "true"
    ELSE IF token.t = "string" THEN token.text
    ELSE CHOOSE n \in (0 - MaxJsonInt)..MaxJsonInt : ToString(n) = token.text

\* json.dump of the sample_types mapping of a template
json_dump_sample_types(st) ==
    [k \in DOMAIN st |-> [f \in DOMAIN st[k] |-> json_token(f, st[k][f])]]

json_load_sample_types(doc) ==
    [k \in DOMAIN doc |-> [f \in DOMAIN doc[k] |-> json_value(doc[k][f])]]

\* json.dump(templates, f, indent=2): name -> {sample_types, naming_mode}
json_dump(tpls) ==
    [name \in DOMAIN tpls |->
        [f \in DOMAIN tpls[name] |->
            IF f = "sample_types" THEN json_dump_sample_types(tpls[name][f])
            ELSE json_token(f, tpls[name][f])]]

\* json.load(f) of a JSON object
json_load(doc) ==
    [name \in DOMAIN doc |->
        [f \in DOMAIN doc[name] |->
            IF f = "sample_types" THEN json_load_sample_types(doc[name][f])
            ELSE json_value(doc[name][f])]]

\* load_templates(): [value, raised]; json.JSONDecodeError and IOError are
\* caught, UnicodeDecodeError is neither and leaves the function
load_templates(file) ==
    IF ~file.exists THEN [value |-> EmptyDict, raised |-> FALSE]
    ELSE IF file.kind = "undecodable" THEN [value |-> EmptyDict, raised |-> TRUE]
    ELSE IF file.kind = "garbage" THEN [value |-> EmptyDict, raised |-> FALSE]
    ELSE [value |-> json_load(file.doc), raised |-> FALSE]

\* the file after open(TEMPLATES_FILE, 'w') and json.dump(templates, f)
written(tpls) == [exists |-> TRUE, kind |-> "json", doc |-> json_dump(tpls)]

\* the write of save_template, reading the file once more and keeping what
\* it holds
save_template_write_merging(file, tpls, name, config) ==
    written((name :> config) @@ tpls @@ load_templates(file).value)

\* templates[name] = config, open(TEMPLATES_FILE, 'w') and json.dump: the
\* file is emptied and holds the caller's dict, whatever it held
save_template_write(file, tpls, name, config) == written((name :> config) @@ tpls)

\* if name in templates: del templates[name], open and json.dump
delete_template_write(file, tpls, name) ==
    IF name \in DOMAIN tpls
    THEN written([n \in DOMAIN tpls \ {name} |-> tpls[n]])
    ELSE file

\* save_template writing the new template alone
save_template_alone(file, name, config) ==
    LET loaded == load_templates(file)
    IN  IF loaded.raised THEN [file |-> file, raised |-> TRUE]
        ELSE [file |-> written(name :> config), raised |-> FALSE]

\* save_template(name, config): [file, raised]
save_template(file, name, config) ==
    LET loaded == load_templates(file)
    IN  IF loaded.raised THEN [file |-> file, raised |-> TRUE]
        ELSE [file |-> save_template_write(file, loaded.value, name, config),
              raised |-> FALSE]

\* delete_template(name): [file, raised]
delete_template(file, name) ==
    LET loaded == load_templates(file)
    IN  IF loaded.raised THEN [file |-> file, raised |-> TRUE]
        ELSE [file |-> delete_template_write(file, loaded.value, name), raised |-> FALSE]

TemplateNames == {"A", "B"}

\* the configurations a session saves
TemplateConfigs ==
    {DEFAULT_SAMPLE_TYPES,
     [DEFAULT_SAMPLE_TYPES EXCEPT !.samples = Cfg(TRUE, MaxCount, StartOnly, 1),
                                  !.qc = StartCfg(MaxCount, MaxInterval, 1)]}

\* the templates a file holds when the session starts
StoredTemplates ==
    {[sample_types |-> DEFAULT_SAMPLE_TYPES, naming_mode |-> ModeAuto],
     [sample_types |-> ("samples" :> NoRuleCfg(1)), naming_mode |-> ModeNone]}

\* the states of the file when the session starts
StoreStates ==
    {NoFile,
     [exists |-> TRUE, kind |-> "garbage", doc |-> EmptyDict],
     [exists |-> TRUE, kind |-> "undecodable", doc |-> EmptyDict]}
    \cup {written(tpls) : tpls \in UNION {[S -> StoredTemplates] : S \in SUBSET TemplateNames}}

InitTemplates ==
    /\ sample_types \in TemplateConfigs
    /\ sample_type_order = DefaultOrder
    /\ naming_mode \in {ModeNone, ModeImport}
    /\ session_state = EmptyDict
    /\ sequence = <<>>
    /\ raised = FALSE
    /\ names = <<>>
    /\ pc = "idle"
    /\ default_sample_types = DEFAULT_SAMPLE_TYPES
    /\ shared = {}
    /\ templates_file \in StoreStates
    /\ templates = EmptyDict
    /\ previous = NoRun
    /\ invocations = EmptyDict
    /\ table = <<>>

\* the variables the template handlers leave alone
template_frame ==
    <<sample_types, sample_type_order, naming_mode, sequence, names, config_vars, previous,
      other_vars>>

\* render_template_management: templates = load_templates()
LoadTemplates ==
    /\ LET loaded == load_templates(templates_file)
       IN  /\ raised' = loaded.raised
           /\ templates' = IF loaded.raised THEN templates ELSE loaded.value
    /\ pc' = "loaded"
    /\ UNCHANGED <<templates_file, session_state>>
    /\ UNCHANGED template_frame

\* the "Save Template" button: save_template(template_name, config) and
\* st.rerun(), whose run loads the templates again
SaveTemplate ==
    \E template_name \in TemplateNames :
        LET config == [sample_types |-> sample_types, naming_mode |-> naming_mode]
            saved == save_template(templates_file, template_name, config)
            loaded == load_templates(saved.file)
        IN  /\ session_state' = ("new_template_name" :> template_name) @@ session_state
            /\ templates_file' = saved.file
            /\ raised' = (saved.raised \/ loaded.raised)
            /\ templates' = IF saved.raised \/ loaded.raised THEN templates ELSE loaded.value
            /\ pc' = "saved"
            /\ UNCHANGED template_frame

\* the "Delete" button: delete_template(selected_template) and st.rerun()
DeleteTemplate ==
    \E selected_template \in TemplateNames :
        LET deleted == delete_template(templates_file, selected_template)
            loaded == load_templates(deleted.file)
        IN  /\ session_state' = ("template_select" :> selected_template) @@ session_state
            /\ templates_file' = deleted.file
            /\ raised' = (deleted.raised \/ loaded.raised)
            /\ templates' = IF deleted.raised \/ loaded.raised THEN templates ELSE loaded.value
            /\ pc' = "deleted"
            /\ UNCHANGED template_frame

NextTemplates == LoadTemplates \/ SaveTemplate \/ DeleteTemplate

SpecTemplates == InitTemplates /\ [][NextTemplates]_vars

----------------------------------------------------------------------------
(* components.render_sciex7500_config: the table of step 4, with its Sample
   Name, Plate Type, Plate Number and Vial Position columns *)

VT54 == "1.5mL VT54 (54 vial)"
MTP96 == "MTP 96"

\* the options of the Plate Type and Plate Number selectboxes
PlateTypes == {VT54, MTP96}
PlateNumbers == {1, 2, 3}

\* max_vials = 54 if plate_type == '1.5mL VT54 (54 vial)' else 96
max_vials(plate_type) == IF plate_type = VT54 THEN 54 ELSE 96

\* 'Vial Position': i + 1 if i + 1 <= max_vials else 1, for the p-th entry
\* (p = i + 1)
vial_position(p, plate_type) == IF p <= max_vials(plate_type) THEN p ELSE 1

\* the rows data of the loop over enumerate(sequence)
sciex7500_rows(ss, seq, mode, plate_type, plate_number) ==
    [p \in 1..Len(seq) |->
        [name |-> generate_sample_name(ss, seq[p], mode, seq),
         plate_type |-> plate_type,
         plate_number |-> plate_number,
         vial_position |-> vial_position(p, plate_type)]]

\* Sample with no stored rule and the other categories as shipped, or a QC
\* block after every sample; the plate widgets hold what init_session_state
\* stored
InitTable ==
    /\ sample_types \in
            {[DEFAULT_SAMPLE_TYPES EXCEPT !.samples = NoRuleCfg(n)] : n \in 0..MaxRows}
            \cup {[DEFAULT_SAMPLE_TYPES EXCEPT !.samples = NoRuleCfg(n),
                                               !.qc = Cfg(TRUE, 1, FixedInterval, 1)]
                    : n \in 1..MaxCount}
    /\ sample_type_order = DefaultOrder
    /\ naming_mode = ModeNone
    /\ session_state = [plate_type |-> VT54, plate_number |-> 1]
    /\ sequence = <<>>
    /\ raised = FALSE
    /\ names = <<>>
    /\ pc = "config"
    /\ Untouched

\* render_sciex7500_config(sequence): the two selectboxes store their value,
\* an empty sequence returns None, else one row per entry
BuildTable ==
    /\ pc = "generated"
    /\ ~raised
    /\ \E plate_type \in PlateTypes, plate_number \in PlateNumbers :
        LET ss == [session_state EXCEPT !.plate_type = plate_type,
                                        !.plate_number = plate_number]
            rows == sciex7500_rows(ss, sequence, naming_mode, plate_type, plate_number)
        IN  /\ session_state' = ss
            /\ table' = rows
            /\ names' = [p \in 1..Len(rows) |-> rows[p].name]
    /\ pc' = "tabled"
    /\ UNCHANGED <<sample_types, sample_type_order, naming_mode, sequence, raised>>
    /\ UNCHANGED <<config_vars, store_vars, previous, invocations>>

NextTable == Generate \/ BuildTable

SpecTable == InitTable /\ [][NextTable]_vars

----------------------------------------------------------------------------
(* Two sessions of the app on one saved_templates.json: each call of
   save_template or delete_template reads the file and writes it later, and
   the calls of different sessions take their steps in any order.  The
   fields read and wrote of a call record when it took each step. *)

Calls == {1, 2}

\* what a session saves: its configuration, in import mode
CallConfigs == {[sample_types |-> c, naming_mode |-> ModeImport] : c \in TemplateConfigs}

InitConcurrent ==
    /\ sample_types = DEFAULT_SAMPLE_TYPES
    /\ sample_type_order = DefaultOrder
    /\ naming_mode = ModeImport
    /\ session_state = EmptyDict
    /\ sequence = <<>>
    /\ raised = FALSE
    /\ names = <<>>
    /\ pc = "idle"
    /\ default_sample_types = DEFAULT_SAMPLE_TYPES
    /\ shared = {}
    /\ templates_file \in StoreStates
    /\ templates = EmptyDict
    /\ previous = NoRun
    /\ invocations \in [Calls -> [op : {"save", "delete"}, name : TemplateNames,
                                  config : CallConfigs, at : {"called"},
                                  templates : {EmptyDict}, read : {0}, wrote : {0}]]
    /\ table = <<>>

\* how many steps the calls have taken
StepsTaken ==
    Cardinality({i \in Calls : invocations[i].read > 0})
        + Cardinality({i \in Calls : invocations[i].wrote > 0})

concurrent_frame ==
    <<sample_types, sample_type_order, naming_mode, session_state, sequence, raised,
      names, pc, config_vars, templates, previous, table>>

\* templates = load_templates(), the first line of both functions
CallReads(i) ==
    /\ invocations[i].at = "called"
    /\ LET loaded == load_templates(templates_file)
       IN  invocations' = [invocations EXCEPT
                ![i].at = IF loaded.raised THEN "raised" ELSE "read",
                ![i].templates = loaded.value,
                ![i].read = StepsTaken + 1]
    /\ UNCHANGED templates_file
    /\ UNCHANGED concurrent_frame

\* the rest of the function: the change of the local dict and the write
CallWrites(i) ==
    /\ invocations[i].at = "read"
    /\ templates_file' =
            IF invocations[i].op = "save"
            THEN save_template_write(templates_file, invocations[i].templates,
                                     invocations[i].name, invocations[i].config)
            ELSE delete_template_write(templates_file, invocations[i].templates,
                                       invocations[i].name)
    /\ invocations' = [invocations EXCEPT ![i].at = "returned",
                                          ![i].wrote = StepsTaken + 1]
    /\ UNCHANGED concurrent_frame

NextConcurrent == \E i \in Calls : CallReads(i) \/ CallWrites(i)

SpecConcurrent == InitConcurrent /\ [][NextConcurrent]_vars

----------------------------------------------------------------------------
(* The session: init_session_state, the pages main() renders for steps
   1..step, their widgets and buttons, the sidebar's "Load" and "Reset All".
   dict.copy() is shallow: the copy's values are the objects the original
   holds, so a write through the session reaches the object
   DEFAULT_SAMPLE_TYPES holds for the keys in shared. *)

\* d[k][field] = value
Assign(d, k, field, value) == [d EXCEPT ![k] = (field :> value) @@ d[k]]

\* the keys of st.session_state the wizard reads, as init_session_state
\* stores them
SessionDefaults == [step |-> 1, project_name |-> ""]

\* the saved_templates.json the session finds: a template without counts
\* that stores no sample_types, and one with samples and QC
SessionTemplates ==
    ("A" :> [naming_mode |-> ModeAuto])
    @@ ("B" :> [sample_types |->
                    [DEFAULT_SAMPLE_TYPES EXCEPT !.samples = Cfg(TRUE, MaxCount, StartOnly, 1),
                                                 !.qc = Cfg(TRUE, 1, FixedInterval, 1)],
                naming_mode |-> ModeNone])

InitSession ==
    /\ sample_types = DEFAULT_SAMPLE_TYPES
    /\ sample_type_order = DefaultOrder
    /\ naming_mode = ModeNone
    /\ session_state = SessionDefaults
    /\ sequence = <<>>
    /\ raised = FALSE
    /\ names = <<>>
    /\ pc = "initialised"
    /\ default_sample_types = DEFAULT_SAMPLE_TYPES
    /\ shared = {"standards", "samples", "qc", "blanks"}
    /\ templates_file = written(SessionTemplates)
    /\ templates = EmptyDict
    /\ previous = NoRun
    /\ invocations = EmptyDict
    /\ table = <<>>

\* a run of the script is showing its pages: the session holds its keys
Rendered == pc \in {"initialised", "config"}

\* main(): the page of step n is rendered when st.session_state.step >= n
Shown(n) == Rendered /\ session_state.step >= n

\* st.session_state.sample_types[k][field] = value, by one widget event of
\* the step-2 page
WidgetWrite(k, field, value) ==
    /\ Shown(2)
    /\ previous.runs < MaxEdits
    /\ sample_types[k][field] # value
    /\ sample_types' = Assign(sample_types, k, field, value)
    /\ default_sample_types' =
            IF k \in shared THEN Assign(default_sample_types, k, field, value)
            ELSE default_sample_types
    /\ previous' = [previous EXCEPT !.runs = @ + 1]
    /\ pc' = "config"
    /\ UNCHANGED <<sample_type_order, naming_mode, session_state, sequence, raised,
                   names, shared, store_vars, other_vars>>

\* the four toggles
Toggle ==
    \E k \in DOMAIN sample_types : WidgetWrite(k, "enabled", ~sample_types[k].enabled)

\* "Count per block" of an enabled category
SetCount ==
    \E k \in DOMAIN sample_types, count \in 0..MaxCount :
        sample_types[k].enabled /\ WidgetWrite(k, "count", count)

\* "Placement Rule" of an enabled category other than samples
SetRule ==
    \E k \in DOMAIN sample_types \ {"samples"}, m \in 1..Len(FREQUENCY_RULES) :
        sample_types[k].enabled /\ WidgetWrite(k, "rule", FREQUENCY_RULES[m])

\* "Every N samples" of an enabled category on an interval rule
SetInterval ==
    \E k \in DOMAIN sample_types \ {"samples"}, interval \in 1..MaxInterval :
        /\ sample_types[k].enabled
        /\ includes_interval(sample_types[k].rule)
        /\ WidgetWrite(k, "interval", interval)

\* what the handlers of the wizard's buttons leave alone
wizard_frame ==
    <<sample_types, naming_mode, sequence, raised, names, config_vars, store_vars,
      other_vars>>

\* one more event that changes the configuration; MaxEdits of them are followed
Edited == previous.runs < MaxEdits /\ previous' = [previous EXCEPT !.runs = @ + 1]

\* the "Project Name" text input of step 1
SetProjectName ==
    /\ Shown(1)
    /\ \E project_name \in {"", "P"} :
        /\ session_state.project_name # project_name
        /\ session_state' = [session_state EXCEPT !.project_name = project_name]
    /\ pc' = "config"
    /\ UNCHANGED <<sample_type_order, previous>>
    /\ UNCHANGED wizard_frame

\* st.session_state.step = max(st.session_state.step, n)
continue_to(step, n) == IF step > n THEN step ELSE n

\* the Continue button of step 2 shown whatever the counts are
may_continue_always(st) == TRUE

\* any(config['enabled'] and config['count'] > 0
\*     for config in st.session_state.sample_types.values())
may_continue(st) == \E k \in DOMAIN st : st[k].enabled /\ st[k].count > 0

\* the button at the foot of page n is there
ContinueShown(n) ==
    /\ Shown(n)
    /\ n = 1 => session_state.project_name # ""
    /\ n = 2 => may_continue(sample_types)

\* "Continue to ..." of the pages 1..4
Continue ==
    /\ \E n \in 1..4 :
        /\ ContinueShown(n)
        /\ session_state' = [session_state EXCEPT !.step = continue_to(@, n + 1)]
    /\ pc' = "config"
    /\ UNCHANGED <<sample_type_order, previous>>
    /\ UNCHANGED wizard_frame

\* "Back" of the pages 2..5
Back ==
    /\ \E n \in 2..5 :
        /\ Shown(n)
        /\ session_state' = [session_state EXCEPT !.step = n - 1]
    /\ pc' = "config"
    /\ UNCHANGED <<sample_type_order, previous>>
    /\ UNCHANGED wizard_frame

\* a swap that copies one of the two keys over the other
swap_copying(order, p, q) == [order EXCEPT ![p] = order[q]]

\* order[p], order[q] = order[q], order[p]
swap(order, p, q) == [order EXCEPT ![p] = order[q], ![q] = order[p]]

\* the up button of the p-th key of the order (idx = p - 1), disabled for
\* the first
MoveUp ==
    /\ Shown(2)
    /\ \E p \in 2..Len(sample_type_order) :
        sample_type_order' = swap(sample_type_order, p, p - 1)
    /\ Edited
    /\ pc' = "config"
    /\ UNCHANGED session_state
    /\ UNCHANGED wizard_frame

\* the down button of the p-th key, disabled for the last
MoveDown ==
    /\ Shown(2)
    /\ \E p \in 1..(Len(sample_type_order) - 1) :
        sample_type_order' = swap(sample_type_order, p, p + 1)
    /\ Edited
    /\ pc' = "config"
    /\ UNCHANGED session_state
    /\ UNCHANGED wizard_frame

\* the sidebar's "Load" button on a selected template: sample_types and
\* naming_mode are replaced, DEFAULT_SAMPLE_TYPES.copy() standing in for
\* sample_types the template does not store
LoadTemplate ==
    /\ Rendered
    /\ LET loaded == load_templates(templates_file)
       IN  /\ ~loaded.raised
           /\ \E selected_template \in DOMAIN loaded.value :
                LET config == loaded.value[selected_template]
                IN  /\ sample_types' = Get(config, "sample_types", default_sample_types)
                    /\ shared' = IF "sample_types" \in DOMAIN config THEN {}
                                 ELSE DOMAIN default_sample_types
                    /\ naming_mode' = Get(config, "naming_mode", ModeNone)
                    /\ session_state' =
                            ("template_select" :> selected_template) @@ session_state
           /\ templates' = loaded.value
    /\ Edited
    /\ pc' = "config"
    /\ UNCHANGED <<sample_type_order, sequence, raised, names, default_sample_types,
                   templates_file, other_vars>>

\* reset_session_state(): every key of the session is deleted
ResetAll ==
    /\ Rendered
    /\ sample_types' = EmptyDict
    /\ sample_type_order' = <<>>
    /\ session_state' = EmptyDict
    /\ shared' = {}
    /\ pc' = "reset"
    /\ UNCHANGED <<naming_mode, sequence, raised,
                   names, default_sample_types, store_vars, previous, other_vars>>

\* init_session_state() of the run after the reset:
\* st.session_state['sample_types'] = DEFAULT_SAMPLE_TYPES.copy().copy()
init_session_state ==
    /\ pc = "reset"
    /\ sample_types' = default_sample_types
    /\ sample_type_order' = DefaultOrder
    /\ naming_mode' = ModeNone
    /\ session_state' = SessionDefaults
    /\ shared' = DOMAIN default_sample_types
    /\ pc' = "initialised"
    /\ UNCHANGED <<sequence, raised,
                   names, default_sample_types, store_vars, previous, other_vars>>

NextSession ==
    \/ SetProjectName \/ Continue \/ Back
    \/ Toggle \/ SetCount \/ SetRule \/ SetInterval
    \/ MoveUp \/ MoveDown
    \/ LoadTemplate
    \/ ResetAll \/ init_session_state

SpecSession == InitSession /\ [][NextSession]_vars

----------------------------------------------------------------------------
(* Vocabulary of the properties *)

Keys == {"standards", "samples", "qc", "blanks"}

PlacementRules == {StartOnly, EndOnly, FixedInterval, StartPlusInterval}

Entry(stype, i) == [type |-> stype, index |-> i]

\* the entries stype a..b in order
Run(stype, a, b) == [i \in 1..(b - a + 1) |-> Entry(stype, a + i - 1)]

\* how many entries of one display name a sequence holds
CountOf(seq, stype) == Cardinality({p \in 1..Len(seq) : seq[p].type = stype})

\* a sequence without the entries of one display name
Without(seq, stype) == SelectSeq(seq, LAMBDA e : e.type # stype)

\* d with key set to value
With(d, key, value) == (key :> value) @@ d

IsPermutation(order) ==
    Len(order) = 4 /\ {order[p] : p \in 1..Len(order)} = Keys

\* the data model's configurations: all four categories, counts, intervals
\* and start counts not negative, the order a permutation
WellFormed ==
    /\ IsPermutation(sample_type_order)
    /\ DOMAIN sample_types = Keys
    /\ \A k \in Keys :
        /\ {"enabled", "count"} \subseteq DOMAIN sample_types[k]
        /\ sample_types[k].count >= 0
        /\ Get(sample_types[k], "interval", 0) >= 0
        /\ Get(sample_types[k], "start_count", 0) >= 0

Cfgs(k) == Get(sample_types, k, EmptyDict)
RuleOf(k) == Get(Cfgs(k), "rule", "")
CountCfg(k) == Get(Cfgs(k), "count", 0)
IntervalCfg(k) == Get(Cfgs(k), "interval", 0)
StartCountCfg(k) == Get(Cfgs(k), "start_count", CountCfg(k))
Enabled(k) == Get(Cfgs(k), "enabled", FALSE)

\* a main-sequence category: Sample, or a category that stores no placement rule
IsMain(k) == Enabled(k) /\ (k = "samples" \/ RuleOf(k) \notin PlacementRules)

Generated == pc = "generated" /\ ~raised

----------------------------------------------------------------------------
(* C1: the rule stored for Sample *)

SampleRules == PlacementRules \cup {"Main sequence"}

\* C1: generate_sequence returns the same sequence whatever rule is stored
\* for the Sample category, every other field and the order being equal.
C1_SampleRuleIgnored ==
    (Generated /\ "samples" \in DOMAIN sample_types) =>
        \A r \in SampleRules :
            generate_sequence(
                With(sample_types, "samples", With(sample_types["samples"], "rule", r)),
                sample_type_order).sequence = sequence

----------------------------------------------------------------------------
(* C2: the interval law *)

QC2 == <<Entry("QC", 1), Entry("QC", 2)>>

\* the sequence the interval law states: no QC block after Sample20
IntervalLawStated ==
    QC2 \o Run("Sample", 1, 5) \o QC2 \o Run("Sample", 6, 10) \o QC2
        \o Run("Sample", 11, 15) \o QC2 \o Run("Sample", 16, 20)

IntervalLawCase ==
    Generated /\ sample_types \in IntervalLawConfigs /\ sample_type_order = DefaultOrder

\* C2 as stated: Sample 20 and QC 2 every 5 give QC1,QC2, Sample1..5, QC1,QC2,
\* Sample6..10, QC1,QC2, Sample11..15, QC1,QC2, Sample16..20 and nothing more.
\* Stated on the configuration that stores no rule for Sample.
C2_IntervalLaw_AsStated ==
    (IntervalLawCase /\ "rule" \notin DOMAIN sample_types.samples) =>
        sequence = IntervalLawStated

\* C2, amended: the sequence ends with the stated entries followed by one
\* more QC1,QC2 block after Sample20, and with no rule stored for Sample these
\* 30 entries are the whole sequence.
C2_IntervalLaw ==
    IntervalLawCase =>
        /\ Len(sequence) >= 30
        /\ SubSeq(sequence, Len(sequence) - 29, Len(sequence)) = IntervalLawStated \o QC2
        /\ "rule" \notin DOMAIN sample_types.samples => Len(sequence) = 30

C2_Witness ==
    /\ IntervalLawCase
    /\ "rule" \notin DOMAIN sample_types.samples
    /\ Len(sequence) = 30
    /\ sequence[29] = Entry("QC", 1)

----------------------------------------------------------------------------
(* C3: the end-to-end scenario *)

\* C3: Sample 10 with rule 'At the start only' and QC 1 every 5 give exactly
\* the 12 entries QC1, Sample1..Sample5, QC1, Sample6..Sample10.
C3_EndToEnd ==
    (Generated /\ sample_types = EndToEndConfig /\ sample_type_order = DefaultOrder) =>
        sequence = <<Entry("QC", 1)>> \o Run("Sample", 1, 5)
                   \o <<Entry("QC", 1)>> \o Run("Sample", 6, 10)

----------------------------------------------------------------------------
(* C4: count conservation *)

\* M: the number of main-sequence entries
MainEntries ==
    LET RECURSIVE Sum(_)
        Sum(S) == IF S = {} THEN 0
                  ELSE LET k == CHOOSE x \in S : TRUE
                       IN  CountCfg(k) + Sum(S \ {k})
    IN  Sum({k \in Keys : IsMain(k)})

\* floor(M / interval), no repeat when the interval is 0
Repeats(k) == IF IntervalCfg(k) > 0 THEN MainEntries \div IntervalCfg(k) ELSE 0

\* the number of entries the config alone gives a category
ExpectedCount(k) ==
    IF ~Enabled(k) THEN 0
    ELSE IF k = "samples" THEN CountCfg(k)
    ELSE IF RuleOf(k) \in {StartOnly, EndOnly} THEN CountCfg(k)
    ELSE IF RuleOf(k) = FixedInterval THEN CountCfg(k) * (1 + Repeats(k))
    ELSE IF RuleOf(k) = StartPlusInterval
        THEN StartCountCfg(k) + CountCfg(k) * Repeats(k)
    ELSE CountCfg(k)

\* C4: every category has as many entries in the output as its config gives
\* it: 0 when disabled, count for Sample and for the start-only and end-only
\* rules, count * (1 + M div interval) for the fixed interval rule and
\* start_count + count * (M div interval) for the start + interval rule.
C4_CountConservation ==
    (Generated /\ WellFormed) =>
        \A k \in Keys : CountOf(sequence, type_display[k]) = ExpectedCount(k)

C4_Sample_Doubled ==
    /\ Generated /\ WellFormed
    /\ CountOf(sequence, "Sample") = 2 * ExpectedCount("samples")
    /\ ExpectedCount("samples") > 0

----------------------------------------------------------------------------
(* C5: block-local indices *)

\* the key whose display name is stype
KeyOf(stype) == CHOOSE k \in Keys : type_display[k] = stype

RunStartsAt(seq, p) == p = 1 \/ seq[p - 1].type # seq[p].type
RunEndsAt(seq, p) == p = Len(seq) \/ seq[p + 1].type # seq[p].type

\* the counts a block of category k can be configured with
BlockCounts(k) ==
    {CountCfg(k)} \cup (IF RuleOf(k) = StartPlusInterval THEN {StartCountCfg(k)} ELSE {})

\* the entries of the run that holds position p are numbered from 1 up to p
\* and, where the run ends at p, their number is a configured block count
LocalIndexAt(seq, p) ==
    /\ seq[p].index = IF RunStartsAt(seq, p) THEN 1 ELSE seq[p - 1].index + 1
    /\ RunEndsAt(seq, p) => seq[p].index \in BlockCounts(KeyOf(seq[p].type))

\* the count of the block that starts at position p: start_count for the
\* start block of a start + interval category, count for every other block
BlockCountAt(seq, p) ==
    LET k == KeyOf(seq[p].type)
    IN  IF /\ RuleOf(k) = StartPlusInterval /\ StartCountCfg(k) > 0
           /\ \A q \in 1..(p - 1) : seq[q].type # seq[p].type
        THEN StartCountCfg(k)
        ELSE CountCfg(k)

\* position p holds an entry of an auxiliary category placed by a rule
seq_is_aux_block(seq, p) ==
    KeyOf(seq[p].type) # "samples" /\ RuleOf(KeyOf(seq[p].type)) \in PlacementRules

\* C5 as stated: every maximal run of entries of one category, Sample runs
\* between interval blocks included, carries the indices 1..n, n the block's
\* configured count.  Stated on the configurations that store no placement
\* rule for Sample, where the Sample entries are main-sequence entries only.
C5_BlockLocalIndex_AsStated ==
    (Generated /\ WellFormed /\ RuleOf("samples") \notin PlacementRules) =>
        \A p \in 1..Len(sequence) : LocalIndexAt(sequence, p)

\* C5, amended: every maximal run of entries of an auxiliary category placed
\* by one of the four rules carries the indices 1..n, n the count of that
\* block (start_count for the start block of a start + interval category);
\* the Sample entries carry the running index 1..count, which interval blocks
\* do not restart, when no placement rule is stored for Sample.
C5_BlockLocalIndex ==
    (Generated /\ WellFormed) =>
        /\ \A p \in 1..Len(sequence) :
            (seq_is_aux_block(sequence, p)) =>
                /\ sequence[p].index =
                     IF RunStartsAt(sequence, p) THEN 1 ELSE sequence[p - 1].index + 1
                /\ RunEndsAt(sequence, p) =>
                     sequence[p].index =
                        BlockCountAt(sequence, p - sequence[p].index + 1)
        /\ (Enabled("samples") /\ RuleOf("samples") \notin PlacementRules) =>
             SelectSeq(sequence, LAMBDA e : e.type = "Sample")
                = Run("Sample", 1, CountCfg("samples"))

\* a Sample run resumes at index 3 after an interval block of two entries
C5_Witness ==
    /\ Generated /\ WellFormed
    /\ RuleOf("samples") \notin PlacementRules
    /\ \E p \in 3..Len(sequence) :
        /\ sequence[p] = Entry("Sample", 3)
        /\ sequence[p - 1].type # "Sample" /\ sequence[p - 1].index = 2
        /\ sequence[p - 2].type = sequence[p - 1].type /\ sequence[p - 2].index = 1

----------------------------------------------------------------------------
(* C8, C9: disabled categories *)

\* C8: a category that is not enabled has no entry in the output, whatever
\* its count, rule, interval and start_count are.
C8_DisabledContributesNothing ==
    pc = "generated" =>
        \A k \in Keys : ~Enabled(k) => CountOf(sequence, type_display[k]) = 0

\* a disabled category that stores a count and an interval rule, in a run
\* whose main sequence reaches its interval
C8_Witness ==
    /\ pc = "generated"
    /\ \E k \in AuxKeys :
        /\ ~Enabled(k) /\ CountCfg(k) > 0 /\ RuleOf(k) = FixedInterval
        /\ IntervalCfg(k) > 0 /\ CountOf(sequence, "Sample") >= IntervalCfg(k)

\* sample_types with category k switched off
Disabled(st, k) == With(st, k, With(st[k], "enabled", FALSE))

\* C9: for every category c other than Sample, the sequence built with c
\* disabled is the sequence built with c enabled less the entries of c.
C9_DisablingKeepsOthers ==
    (Generated /\ WellFormed) =>
        \A c \in AuxKeys :
            Enabled(c) =>
                generate_sequence(Disabled(sample_types, c), sample_type_order).sequence
                    = Without(sequence, type_display[c])

----------------------------------------------------------------------------
(* C10: totality *)

\* C10: generate_sequence raises for no mapping and no order, and a category
\* the mapping lacks has no entry in the output.
C10_Total ==
    pc = "generated" =>
        /\ ~raised
        /\ \A k \in Keys \ DOMAIN sample_types : CountOf(sequence, type_display[k]) = 0

\* an interval category with interval 0 met a main-sequence entry, in a
\* mapping that lacks a category
C10_Witness ==
    /\ pc = "generated"
    /\ "standards" \notin DOMAIN sample_types
    /\ \E k \in Keys :
        /\ Enabled(k) /\ includes_interval(RuleOf(k)) /\ IntervalCfg(k) = 0
        /\ \E p \in 1..Len(sample_type_order) : sample_type_order[p] = k
    /\ CountOf(sequence, "Sample") > 0

----------------------------------------------------------------------------
(* C6, C7: the name resolver *)

\* C6: in import mode the entry at position p gets imported_names[k], k the
\* number of entries of its category before p, whenever the list is that
\* long; entries at different positions get different list elements.
C6_ImportedOrdinal ==
    (pc = "named" /\ naming_mode = ModeImport /\ "imported_names" \in DOMAIN session_state) =>
        \A p \in 1..Len(sequence) :
            LET k == CountOf(SubSeq(sequence, 1, p - 1), sequence[p].type)
            IN  k < Len(session_state["imported_names"]) =>
                    names[p] = session_state["imported_names"][k + 1]

\* the name auto-build mode gives an entry, from the keys stored for it
AutoName(item) ==
    LET t == Lower(item.type)
        number == ToString(Get(session_state, "index_start_" \o t, 1) + item.index - 1)
        head == Get(session_state, "prefix_" \o t, Upper3(t)) \o "_" \o number
    IN  IF Get(session_state, "suffix_" \o t, "") = "" THEN head
        ELSE head \o "_" \o session_state["suffix_" \o t]

StdDilSession ==
    /\ Get(session_state, "prefix_standard", "") = "STD"
    /\ Get(session_state, "index_start_standard", 0) = 1
    /\ Get(session_state, "suffix_standard", "") = "dil"

\* C7: in auto-build mode the name is prefix_N, N = index_start + index - 1,
\* with _suffix appended exactly when the suffix is not empty; prefix STD,
\* index_start 1, suffix dil and entry {Standard, 3} give STD_3_dil.
C7_AutoBuild ==
    (pc = "named" /\ naming_mode = ModeAuto) =>
        \A p \in 1..Len(sequence) :
            /\ names[p] = AutoName(sequence[p])
            /\ (StdDilSession /\ sequence[p] = Entry("Standard", 3)) =>
                    names[p] = "STD_3_dil"

C7_Witness ==
    /\ pc = "named" /\ naming_mode = ModeAuto /\ StdDilSession
    /\ \E p \in 1..Len(sequence) :
        sequence[p] = Entry("Standard", 3) /\ names[p] = "STD_3_dil"

----------------------------------------------------------------------------
(* C11, C12: zero counts and the start block of a start + interval category *)

\* C11: an enabled category whose count is 0 has no entry in the output,
\* under every rule, start + interval with a stored start_count included,
\* and every interval.
C11_ZeroCountContributesNothing ==
    (Generated /\ WellFormed) =>
        \A k \in Keys :
            (Enabled(k) /\ CountCfg(k) = 0) => CountOf(sequence, type_display[k]) = 0

Min(a, b) == IF a < b THEN a ELSE b

\* the keys of the main categories that emit an entry, in order
EmittingMains == SelectSeq(sample_type_order, LAMBDA k : IsMain(k) /\ CountCfg(k) > 0)

\* the position of the first main-sequence entry, Len + 1 when there is none:
\* the main sequence holds index 1 of its first category once, and a start
\* block of that category comes before it
FirstMainPos(seq) ==
    IF EmittingMains = <<>> THEN Len(seq) + 1
    ELSE LET first == Entry(type_display[EmittingMains[1]], 1)
         IN  CHOOSE p \in 1..Len(seq) :
                seq[p] = first /\ \A q \in (p + 1)..Len(seq) : seq[q] # first

\* the entries of category k placed before the main sequence
StartBlockOf(seq, k) ==
    SelectSeq(SubSeq(seq, 1, FirstMainPos(seq) - 1), LAMBDA e : e.type = type_display[k])

\* C12: the start block of an enabled start + interval category holds the
\* indices 1..min(start_count, count), start_count being count when it is
\* unset; it never holds more than count entries.
C12_StartBlockCapped ==
    (Generated /\ WellFormed) =>
        \A k \in AuxKeys :
            (Enabled(k) /\ RuleOf(k) = StartPlusInterval) =>
                StartBlockOf(sequence, k)
                    = Run(type_display[k], 1, Min(StartCountCfg(k), CountCfg(k)))

----------------------------------------------------------------------------
(* C18: the Sample category disabled *)

\* the block of an enabled category k in one phase: in the start phase the
\* entries 1..n of a start-anchored category, n its count (for start +
\* interval, the size of the one block it has); in the end phase the entries
\* 1..count of an end-anchored category
PhaseBlock(k, phase) ==
    IF ~Enabled(k) THEN <<>>
    ELSE IF phase = "start" /\ RuleOf(k) \in {StartOnly, FixedInterval}
        THEN Run(type_display[k], 1, CountCfg(k))
    ELSE IF phase = "start" /\ RuleOf(k) = StartPlusInterval
        THEN Run(type_display[k], 1, CountOf(sequence, type_display[k]))
    ELSE IF phase = "end" /\ RuleOf(k) = EndOnly
        THEN Run(type_display[k], 1, CountCfg(k))
    ELSE <<>>

\* the blocks of one phase, in category order
RECURSIVE PhaseBlocks(_, _)
PhaseBlocks(i, phase) ==
    IF i > Len(sample_type_order) THEN <<>>
    ELSE PhaseBlock(sample_type_order[i], phase) \o PhaseBlocks(i + 1, phase)

AuxUseRules == \A k \in AuxKeys : Enabled(k) => RuleOf(k) \in PlacementRules

\* C18: with Sample disabled and every enabled auxiliary category on one of
\* the four rules, the output is the start blocks in category order (one
\* block for every interval category) followed by the end blocks in category
\* order: no main-sequence entry and no repeat block.
C18_SampleDisabled ==
    (Generated /\ WellFormed /\ ~Enabled("samples") /\ AuxUseRules) =>
        sequence = PhaseBlocks(1, "start") \o PhaseBlocks(1, "end")

\* Sample is disabled with a count that reaches the interval of an enabled
\* interval category, and an end block follows that category's single block
C18_Witness ==
    /\ Generated /\ WellFormed /\ ~Enabled("samples") /\ AuxUseRules
    /\ \E k, e \in AuxKeys :
        /\ Enabled(k) /\ RuleOf(k) = FixedInterval /\ CountCfg(k) > 0
        /\ IntervalCfg(k) > 0 /\ CountCfg("samples") >= IntervalCfg(k)
        /\ Enabled(e) /\ RuleOf(e) = EndOnly /\ CountCfg(e) > 0
        /\ CountOf(sequence, type_display[k]) = CountCfg(k)
        /\ sequence[Len(sequence)].type = type_display[e]

----------------------------------------------------------------------------
(* C19: the repeat blocks of an interval category *)

\* the interval categories that retrigger, in category order
Retriggering ==
    SelectSeq(sample_type_order,
              LAMBDA k : Enabled(k) /\ includes_interval(RuleOf(k)) /\ IntervalCfg(k) > 0)

\* category k has a repeat block after the j-th main-sequence entry
Due(k, j) == j % IntervalCfg(k) = 0

\* the length of the repeat blocks of Retriggering[i..] after the j-th entry
RECURSIVE RepeatLenFrom(_, _)
RepeatLenFrom(i, j) ==
    IF i > Len(Retriggering) THEN 0
    ELSE (IF Due(Retriggering[i], j) THEN CountCfg(Retriggering[i]) ELSE 0)
            + RepeatLenFrom(i + 1, j)

\* the length of the output from the j-th main-sequence entry to the last
\* repeat block
RECURSIVE MainTailLen(_)
MainTailLen(j) ==
    IF j > MainEntries THEN 0
    ELSE 1 + RepeatLenFrom(1, j) + MainTailLen(j + 1)

\* the length of the end blocks
RECURSIVE EndLen(_)
EndLen(S) ==
    IF S = {} THEN 0
    ELSE LET k == CHOOSE x \in S : TRUE
         IN  (IF Enabled(k) /\ RuleOf(k) = EndOnly THEN CountCfg(k) ELSE 0)
                + EndLen(S \ {k})

\* the position of the j-th main-sequence entry in the output
MainPos(seq, j) == Len(seq) - EndLen(Keys) - MainTailLen(j) + 1

\* C19: an enabled interval category with interval N > 0 has a repeat block
\* of the entries 1..count right after the k*N-th entry of the main sequence
\* (after the repeat blocks of the categories before it in the order that
\* are due at the same entry) for every k*N up to the number of main-sequence
\* entries, the last entry included when that number is a multiple of N.
C19_RepeatAfterEveryN ==
    (Generated /\ WellFormed) =>
        \A i \in 1..Len(Retriggering) : \A j \in 1..MainEntries :
            LET k == Retriggering[i]
                at == MainPos(sequence, j)
                from == at + RepeatLenFrom(1, j) - RepeatLenFrom(i, j)
            IN  Due(k, j) =>
                    /\ at >= 1 /\ from + CountCfg(k) <= Len(sequence)
                    /\ sequence[at].type \in {type_display[m] : m \in {x \in Keys : IsMain(x)}}
                    /\ SubSeq(sequence, from + 1, from + CountCfg(k))
                            = Run(type_display[k], 1, CountCfg(k))

\* two samples and a category of two entries every 2: the output ends with
\* Sample2 and the repeat block
C19_Witness ==
    /\ Generated /\ WellFormed
    /\ Enabled("samples") /\ CountCfg("samples") = 2 /\ MainEntries = 2
    /\ \E k \in AuxKeys :
        /\ Enabled(k) /\ RuleOf(k) = FixedInterval
        /\ IntervalCfg(k) = 2 /\ CountCfg(k) = 2
        /\ Len(sequence) >= 3
        /\ SubSeq(sequence, Len(sequence) - 2, Len(sequence))
                = <<Entry("Sample", 2)>> \o Run(type_display[k], 1, 2)

----------------------------------------------------------------------------
(* C15, C16: the names that need no naming data *)

\* the None-mode name: the category followed by the block-local index
NoneName(item) == item.type \o ToString(item.index)

\* the number of entries of the category of position p before position p
Ordinal(seq, p) == CountOf(SubSeq(seq, 1, p - 1), seq[p].type)

\* C15: in import mode an entry whose ordinal is not smaller than the length
\* of the imported list, or any entry when there is no imported list or no
\* sequence is passed, gets the None-mode name.
C15_ImportFallback ==
    (pc = "named" /\ naming_mode = ModeImport) =>
        \A p \in 1..Len(sequence) :
            /\ ("imported_names" \notin DOMAIN session_state
                    \/ Ordinal(sequence, p) >= Len(session_state["imported_names"]))
                => names[p] = NoneName(sequence[p])
            /\ generate_sample_name(session_state, sequence[p], naming_mode, <<>>)
                    = NoneName(sequence[p])

\* C16: in mode 'None' the name is the category followed by the block-local
\* index, and mode 'Enter each name manually' gives every entry the name
\* mode 'None' gives it, whatever naming data the session holds.
C16_NoneAndManual ==
    (pc = "named" /\ naming_mode \in {ModeNone, ModeManual}) =>
        \A p \in 1..Len(sequence) :
            /\ names[p] = NoneName(sequence[p])
            /\ generate_sample_name(session_state, sequence[p], ModeManual, sequence)
                    = generate_sample_name(session_state, sequence[p], ModeNone, sequence)

\* manual mode in a session that holds an imported list: a QC entry of a
\* repeat block is named QC1
C16_Witness ==
    /\ pc = "named" /\ naming_mode = ModeManual
    /\ "imported_names" \in DOMAIN session_state
    /\ \E p \in 2..Len(sequence) :
        /\ sequence[p] = Entry("QC", 1) /\ names[p] = "QC1"
        /\ \E q \in 1..(p - 1) : sequence[q] = sequence[p]

----------------------------------------------------------------------------
(* C17: determinism *)

Rerunning == pc = "named" /\ previous.runs > 0

\* C17 as stated: a run that follows another with the same sample_types,
\* type_order and naming_mode returns the same sequence and, for every
\* entry, the same name, whatever was done between the two runs.
C17_NoHiddenState_AsStated ==
    Rerunning => (sequence = previous.sequence /\ names = previous.names)

\* the session keys generate_sample_name reads for an entry in a mode
ReadKeys(item, mode) ==
    IF mode = ModeAuto
        THEN {"prefix_" \o Lower(item.type), "suffix_" \o Lower(item.type),
              "index_start_" \o Lower(item.type)}
    ELSE IF mode = ModeImport THEN {"imported_names"}
    ELSE {}

\* two session states hold the same value, or both nothing, under every key of K
Agree(ss1, ss2, K) ==
    \A key \in K :
        /\ key \in DOMAIN ss1 <=> key \in DOMAIN ss2
        /\ key \in DOMAIN ss1 \cap DOMAIN ss2 => ss1[key] = ss2[key]

\* C17, amended: a run that follows another with the same arguments returns
\* the same sequence, and the same name for every entry for which the session
\* keys the resolver reads (prefix_, suffix_ and index_start_ of the entry's
\* lower-cased category in auto-build mode, imported_names in import mode)
\* hold what they held in the run before.
C17_NoHiddenState ==
    Rerunning =>
        /\ sequence = previous.sequence
        /\ \A p \in 1..Len(sequence) :
            Agree(previous.session_state, session_state, ReadKeys(sequence[p], naming_mode))
                => names[p] = previous.names[p]

\* the Standard prefix was edited between two runs (the widget stores it as
\* prefix_standards) and the names are the names of the run before
C17_Witness ==
    /\ Rerunning /\ naming_mode = ModeAuto
    /\ Get(session_state, "prefix_standards", "") = "X"
    /\ Get(previous.session_state, "prefix_standards", "") # "X"
    /\ names = previous.names
    /\ \E p \in 1..Len(sequence) : sequence[p].type = "Standard"

----------------------------------------------------------------------------
(* C13, C14: the template store *)

\* the configuration the "Save Template" button saves
SavedConfig == [sample_types |-> sample_types, naming_mode |-> naming_mode]

\* C13: from every state of the store, save_template(name, config) followed
\* by load_templates() gives a mapping that holds config under name, and
\* delete_template(name) followed by load_templates() gives a mapping that
\* does not hold name.
C13_TemplateRoundTrip ==
    /\ pc = "saved" =>
            /\ ~raised
            /\ session_state["new_template_name"] \in DOMAIN templates
            /\ templates[session_state["new_template_name"]] = SavedConfig
    /\ pc = "deleted" =>
            /\ ~raised
            /\ session_state["template_select"] \notin DOMAIN templates

\* C14: load_templates raises nothing, returns the empty mapping when the
\* file is missing or is no JSON document, and leaves the file as it is.
C14_LoadNeverFails ==
    /\ [](pc = "loaded" =>
            /\ ~raised
            /\ (~templates_file.exists \/ templates_file.kind # "json")
                    => templates = EmptyDict)
    /\ [][pc' = "loaded" => templates_file' = templates_file]_vars

----------------------------------------------------------------------------
(* C20: "Reset All" *)

\* C20: after reset_session_state and init_session_state the session's
\* sample_types are the shipped defaults, whatever the step-2 widgets wrote
\* before, and the edits never change DEFAULT_SAMPLE_TYPES itself.
C20_ResetRestoresDefaults ==
    /\ pc = "initialised" => sample_types = DEFAULT_SAMPLE_TYPES
    /\ default_sample_types = DEFAULT_SAMPLE_TYPES

----------------------------------------------------------------------------
(* C21: the keys of the naming step *)

\* the name built from what the naming step stored under the category key k
StoredName(k, idx) ==
    LET number == ToString(session_state["index_start_" \o k] + idx - 1)
        head == session_state["prefix_" \o k] \o "_" \o number
    IN  IF session_state["suffix_" \o k] = "" THEN head
        ELSE head \o "_" \o session_state["suffix_" \o k]

\* C21: in auto-build mode an entry of a category whose prefix, start index
\* and suffix the naming step stored is named from those three values, for
\* each of Standard, Sample, QC and Blank.
C21_StoredKeysAreRead ==
    (pc = "named" /\ naming_mode = ModeAuto) =>
        \A p \in 1..Len(sequence) :
            LET k == KeyOf(sequence[p].type)
            IN  ("prefix_" \o k) \in DOMAIN session_state =>
                    names[p] = StoredName(k, sequence[p].index)

----------------------------------------------------------------------------
(* C22: what the interval counter counts *)

\* the display names of the main-sequence categories
MainTypes == {type_display[k] : k \in {x \in Keys : IsMain(x)}}

\* the positions of the main-sequence entries, when no main category has a
\* start or end block
MainPositions == {p \in 1..Len(sequence) : sequence[p].type \in MainTypes}

\* how many Sample entries the output holds up to position p
SamplesUpTo(p) == Cardinality({q \in 1..p : sequence[q].type = "Sample"})

\* how many main-sequence entries the output holds up to position p
MainsUpTo(p) == Cardinality({q \in MainPositions : q <= p})

\* an entry of category k follows the main-sequence entry at p before the
\* next main-sequence entry
BlockAfter(p, k) ==
    \E q \in (p + 1)..Len(sequence) :
        /\ sequence[q].type = type_display[k]
        /\ \A r \in (p + 1)..q : r \notin MainPositions

\* C22: an interval category with interval N has a repeat block after a
\* main-sequence entry exactly when that entry is a Sample and the number of
\* Sample entries up to it is a multiple of N, also when another category
\* without a placement rule is in the main sequence.
C22_CounterCountsSamples ==
    (Generated /\ WellFormed /\ RuleOf("samples") \notin PlacementRules) =>
        \A i \in 1..Len(Retriggering) : \A p \in MainPositions :
            LET k == Retriggering[i]
            IN  CountCfg(k) > 0 =>
                    (BlockAfter(p, k) <=>
                        /\ sequence[p].type = "Sample"
                        /\ SamplesUpTo(p) % IntervalCfg(k) = 0)

----------------------------------------------------------------------------
(* C23: the order of the blocks of one phase *)

\* where a key stands in the category order
OrderPos(k) == CHOOSE i \in 1..Len(sample_type_order) : sample_type_order[i] = k

StartAnchored(k) ==
    Enabled(k) /\ RuleOf(k) \in {StartOnly, FixedInterval, StartPlusInterval}

EndAnchored(k) == Enabled(k) /\ RuleOf(k) = EndOnly

\* the positions p..q hold blocks in category order: the key of an entry
\* never stands before the key of an earlier entry
InCategoryOrder(p, q) ==
    \A a, b \in p..q :
        a < b => OrderPos(KeyOf(sequence[a].type)) <= OrderPos(KeyOf(sequence[b].type))

\* the first position of the end blocks
EndFrom == Len(sequence) - EndLen(Keys) + 1

\* the first position after the start blocks
StartTo == Min(FirstMainPos(sequence), EndFrom)

\* C23: the start blocks stand before the first main-sequence entry, whole
\* and in category order; the end blocks stand after the last main-sequence
\* entry and the last repeat block, in category order; no entry of an
\* end-anchored category stands anywhere else.
C23_PhaseOrder ==
    (Generated /\ WellFormed) =>
        /\ InCategoryOrder(1, StartTo - 1)
        /\ \A p \in 1..(StartTo - 1) : StartAnchored(KeyOf(sequence[p].type))
        /\ \A k \in AuxKeys :
                StartAnchored(k) =>
                    Cardinality({p \in 1..(StartTo - 1) : sequence[p].type = type_display[k]})
                        = IF RuleOf(k) = StartPlusInterval THEN StartCountCfg(k)
                          ELSE CountCfg(k)
        /\ EndFrom >= StartTo
        /\ InCategoryOrder(EndFrom, Len(sequence))
        /\ \A p \in 1..Len(sequence) :
                EndAnchored(KeyOf(sequence[p].type)) <=> p >= EndFrom

\* blanks moved before standards, a start block of each, main-sequence
\* entries with a repeat block after the last, and an end block
C23_Witness ==
    /\ Generated /\ WellFormed
    /\ OrderPos("blanks") < OrderPos("standards")
    /\ StartAnchored("blanks") /\ CountCfg("blanks") > 0
    /\ RuleOf("standards") = StartOnly /\ Enabled("standards") /\ CountCfg("standards") = MaxCount
    /\ EndAnchored("qc") /\ CountCfg("qc") > 0
    /\ MainEntries > 0
    /\ StartTo = 2 + MaxCount
    /\ sequence[1].type = "Blank" /\ sequence[2].type = "Standard"
    /\ sequence[EndFrom].type = "QC"
    /\ sequence[EndFrom - 1].type = "Blank"

----------------------------------------------------------------------------
(* C24: interval categories due at the same entry *)

\* the repeat blocks of Retriggering[i..] after the j-th main-sequence
\* entry: each category by its own interval, in category order
RECURSIVE RepeatsFrom(_, _)
RepeatsFrom(i, j) ==
    IF i > Len(Retriggering) THEN <<>>
    ELSE (IF Due(Retriggering[i], j)
            THEN Run(type_display[Retriggering[i]], 1, CountCfg(Retriggering[i]))
            ELSE <<>>)
         \o RepeatsFrom(i + 1, j)

\* C24: what stands between the j-th main-sequence entry and the next (or
\* the end blocks) is the blocks 1..count of the interval categories whose
\* own interval divides j, in category order, and nothing else.
C24_IndependentIntervals ==
    (Generated /\ WellFormed) =>
        \A j \in 1..MainEntries :
            /\ sequence[MainPos(sequence, j)].type \in MainTypes
            /\ SubSeq(sequence, MainPos(sequence, j) + 1, MainPos(sequence, j + 1) - 1)
                    = RepeatsFrom(1, j)

\* two interval categories, the one with interval 2 before the one with
\* interval 1 in the order and after it in the shipped order: the first
\* entry is followed by the second category alone, the second entry by both
C24_Witness ==
    /\ Generated /\ WellFormed /\ MainEntries >= 2
    /\ \E a, b \in AuxKeys :
        /\ Len(Retriggering) = 2 /\ Retriggering = <<a, b>>
        /\ \E x, y \in 1..4 : x < y /\ DefaultOrder[x] = b /\ DefaultOrder[y] = a
        /\ IntervalCfg(a) = 2 /\ IntervalCfg(b) = 1
        /\ CountCfg(a) = 1 /\ CountCfg(b) = MaxCount
        /\ sequence[MainPos(sequence, 1) + 1].type = type_display[b]
        /\ MainPos(sequence, 2) = MainPos(sequence, 1) + 1 + MaxCount
        /\ sequence[MainPos(sequence, 2) + 1].type = type_display[a]
        /\ sequence[MainPos(sequence, 2) + 2].type = type_display[b]

----------------------------------------------------------------------------
(* C25: an interval category without a positive interval *)

\* an enabled auxiliary category with an interval rule whose interval is 0,
\* negative or not stored
NoInterval(k) ==
    Enabled(k) /\ includes_interval(RuleOf(k)) /\ IntervalCfg(k) <= 0

\* the entries of category k in the output, in order
EntriesOf(k) == SelectSeq(sequence, LAMBDA e : e.type = type_display[k])

\* C25: when an enabled auxiliary category has an interval rule and an
\* interval that is 0, negative or missing, the builder returns a sequence
\* (no ZeroDivisionError) and the entries of the category are those of its
\* start block alone.
C25_NoRetriggerWithoutInterval ==
    (pc = "generated" /\ IsPermutation(sample_type_order)) =>
        \A k \in AuxKeys :
            NoInterval(k) =>
                /\ ~raised
                /\ EntriesOf(k)
                        = Run(type_display[k], 1,
                              IF RuleOf(k) = StartPlusInterval THEN StartCountCfg(k)
                              ELSE CountCfg(k))

\* a category with interval -1 and three samples after its start block
C25_Witness ==
    /\ pc = "generated" /\ IsPermutation(sample_type_order)
    /\ \E k \in AuxKeys :
        /\ NoInterval(k) /\ IntervalCfg(k) < 0 /\ CountCfg(k) = 1
        /\ RuleOf(k) = FixedInterval
        /\ sequence = <<Entry(type_display[k], 1)>> \o Run("Sample", 1, MaxSamples)

----------------------------------------------------------------------------
(* C27: what save_template and delete_template leave alone *)

\* what load_templates returns for a file
Stored(file) == load_templates(file).value

\* two files hold the same templates under every name but one
SameBut(name, before, after) ==
    /\ DOMAIN Stored(after) \ {name} = DOMAIN Stored(before) \ {name}
    /\ \A n \in DOMAIN Stored(before) \ {name} : Stored(after)[n] = Stored(before)[n]

\* C27: a save leaves every template stored under another name as
\* load_templates returned it before, and so does a delete; a delete of a
\* name that is not stored leaves the file as it was.
C27_OwnKeyOnly ==
    [][/\ pc' = "saved" =>
            SameBut(session_state'["new_template_name"], templates_file, templates_file')
       /\ pc' = "deleted" =>
            /\ SameBut(session_state'["template_select"], templates_file, templates_file')
            /\ session_state'["template_select"] \notin DOMAIN Stored(templates_file)
                    => templates_file' = templates_file]_vars

\* template A saved from the session next to the template B the file held
C27_Witness ==
    /\ pc = "saved" /\ ~raised
    /\ session_state["new_template_name"] = "A"
    /\ DOMAIN Stored(templates_file) = {"A", "B"}
    /\ Stored(templates_file)["A"] = [sample_types |-> sample_types, naming_mode |-> naming_mode]
    /\ Stored(templates_file)["B"] = [sample_types |-> DEFAULT_SAMPLE_TYPES, naming_mode |-> ModeAuto]
    /\ sample_types # DEFAULT_SAMPLE_TYPES

----------------------------------------------------------------------------
(* C28: two saves at once *)

\* both calls are saves, of different names, and have returned
TwoSavesDone ==
    /\ \A i \in Calls : invocations[i].op = "save" /\ invocations[i].at = "returned"
    /\ invocations[1].name # invocations[2].name

\* the call that wrote first, and the other
FirstWriter == CHOOSE i \in Calls : \A j \in Calls : invocations[i].wrote <= invocations[j].wrote
LastWriter == CHOOSE i \in Calls : i # FirstWriter

\* the file holds the template a call saved
Holds(i) ==
    /\ invocations[i].name \in DOMAIN Stored(templates_file)
    /\ Stored(templates_file)[invocations[i].name] = invocations[i].config

\* C28: of two saves of different names that both read the file before
\* either wrote it, the file holds the template of the last writer and not
\* that of the first; when the second read after the first wrote, the file
\* holds both.
C28_LostUpdate ==
    TwoSavesDone =>
        IF invocations[LastWriter].read < invocations[FirstWriter].wrote
        THEN Holds(LastWriter) /\ ~Holds(FirstWriter)
        ELSE Holds(LastWriter) /\ Holds(FirstWriter)

\* no file; call 1 saves A, call 2 saves B, both read, 1 writes, 2 writes:
\* the file holds B alone
C28_Witness ==
    /\ TwoSavesDone
    /\ invocations[1].name = "A" /\ invocations[2].name = "B"
    /\ invocations[1].read = 1 /\ invocations[2].read = 2
    /\ invocations[1].wrote = 3 /\ invocations[2].wrote = 4
    /\ DOMAIN Stored(templates_file) = {"B"}

----------------------------------------------------------------------------
(* C29: the vial positions of the Sciex7500 table *)

\* C29: the k-th row of the table has vial position k, no two rows have the
\* same plate number and vial position, and every vial position is one of
\* the plate, 1..54 on the VT54 plate and 1..96 on the MTP 96 plate.
C29_VialPositions ==
    pc = "tabled" =>
        /\ \A k \in 1..Len(table) : table[k].vial_position = k
        /\ \A k, m \in 1..Len(table) :
                (/\ table[k].plate_number = table[m].plate_number
                 /\ table[k].vial_position = table[m].vial_position) => k = m
        /\ \A k \in 1..Len(table) :
                table[k].vial_position \in 1..max_vials(session_state.plate_type)

----------------------------------------------------------------------------
(* C26: the category order under the up and down buttons *)

\* b is a with the keys at the positions p and p + 1 exchanged
AdjacentSwap(a, b) ==
    /\ Len(b) = Len(a)
    /\ \E p \in 1..(Len(a) - 1) :
        /\ b[p] = a[p + 1] /\ b[p + 1] = a[p]
        /\ \A q \in 1..Len(a) : q \notin {p, p + 1} => b[q] = a[q]

\* C26: while the session shows its pages the order holds each of the four
\* keys once, through up and down presses, edits, navigation and template
\* loads; a step that changes the order exchanges two neighbours of it and
\* changes nothing else of the session, the defaults and the template file.
C26_OrderStaysPermutation ==
    /\ [](Rendered => IsPermutation(sample_type_order))
    /\ [][(Rendered /\ Rendered' /\ sample_type_order' # sample_type_order) =>
            /\ AdjacentSwap(sample_type_order, sample_type_order')
            /\ UNCHANGED <<sample_types, naming_mode, session_state, sequence, names,
                           default_sample_types, shared, templates_file>>]_vars

\* an up press on the second key and a down press on the third
C26_Witness ==
    /\ Rendered
    /\ sample_type_order = <<"samples", "standards", "blanks", "qc">>
    /\ previous.runs = 2
    /\ sample_types = DEFAULT_SAMPLE_TYPES

----------------------------------------------------------------------------
(* C30: the gate of the wizard *)

\* the configuration has an enabled category with a count
HasSamples == \E k \in Keys : Enabled(k) /\ CountCfg(k) > 0

\* C30 as stated: the step is one of 1..5 and at step 3 and later the
\* configuration has an enabled category with a count.
C30_WizardGating ==
    Rendered =>
        /\ session_state.step \in 1..5
        /\ session_state.step >= 3 => HasSamples

\* C30: the step is one of 1..5, and it goes from below 3 to 3 or more only
\* with a configuration that has an enabled category with a count; at step 3
\* and later the configuration need not have one any more.
C30_GateAtContinue ==
    /\ [](Rendered => session_state.step \in 1..5)
    /\ [][(Rendered /\ Rendered' /\ session_state.step < 3 /\ session_state'.step >= 3)
            => (HasSamples /\ UNCHANGED sample_types)]_vars

\* at step 3 after an edit took the last count away
C30_Witness ==
    /\ Rendered
    /\ session_state.step = 3
    /\ ~HasSamples
    /\ previous.runs = 2

====
